---- MODULE Spec2Model ----
(***************************************************************************)
(* Model of the /forecast handler of src/app.py (forecast_attendance).     *)
(*                                                                         *)
(* Numbers.  The handler computes in floating point.  The model computes   *)
(* in exact rational arithmetic: a number is a pair <<n, d>> in lowest     *)
(* terms with d > 0.  <<0, 0>> stands for a non-finite float (nan, inf),   *)
(* which is what numpy returns for a mean of nothing or a division by      *)
(* zero; it propagates through every operation and compares false.         *)
(* np.std takes a square root; it is modelled rounded up to 1/100.         *)
(*                                                                         *)
(* Random source.  np.random is one process-wide generator.  It is the     *)
(* variable rng, a position in a fixed stream of standard normal samples   *)
(* (GaussTable, read cyclically); a draw reads the sample at rng and       *)
(* advances rng.                                                           *)
(*                                                                         *)
(* Library.  SARIMAX(...).fit(...).forecast(steps) either raises or        *)
(* returns `steps` finite numbers, of any sign and size.  Which of these   *)
(* happens for a request is the oracle variable sarimax.                   *)
(***************************************************************************)
EXTENDS Integers, Sequences, FiniteSets, TLC

VARIABLES
    attendance_data,   \* per request: data.get('attendance_data', [])
    periods,           \* per request: data.get('periods', 30)
    sarimax,           \* per request: what the SARIMAX library does
    pc,                \* per request: position in forecast_attendance
    weekly_pattern,    \* per request: local weekly_pattern (7 weekday means)
    weekly_factors,    \* per request: local weekly_factors
    recent_trend,      \* per request: local recent_trend
    forecast_values,   \* per request: local forecast_values
    response,          \* per request: the JSON body returned
    rng,               \* the process-wide np.random state
    seed,              \* the state np.random was seeded with
    drawn,             \* per request: the stream positions it consumed
    log                \* per request: the stages run, with forecast_values after each

vars == <<attendance_data, periods, sarimax, pc, weekly_pattern, weekly_factors,
          recent_trend, forecast_values, response, rng, seed, drawn, log>>

(***************************************************************************)
(* Rational arithmetic                                                     *)
(***************************************************************************)
NaN == <<0, 0>>

Abs(n) == IF n < 0 THEN -n ELSE n

Min(a, b) == IF a < b THEN a ELSE b

Max(a, b) == IF a > b THEN a ELSE b

RECURSIVE GCD(_, _)
GCD(a, b) == IF b = 0 THEN a ELSE GCD(b, a % b)

RNorm(n, d) ==
    IF d = 0 THEN NaN
    ELSE LET g == GCD(Abs(n), Abs(d))
             s == IF d < 0 THEN -1 ELSE 1
         IN  <<s * (n \div g), s * (d \div g)>>

R(n, d) == RNorm(n, d)

Zero == R(0, 1)

One == R(1, 1)

IsNaN(a) == a[2] = 0

RAdd(a, b) ==
    IF IsNaN(a) \/ IsNaN(b) THEN NaN
    ELSE LET g == GCD(a[2], b[2])
         IN  RNorm(a[1] * (b[2] \div g) + b[1] * (a[2] \div g), (a[2] \div g) * b[2])

RNeg(a) == <<-a[1], a[2]>>

RSub(a, b) == RAdd(a, RNeg(b))

RMul(a, b) ==
    IF IsNaN(a) \/ IsNaN(b) THEN NaN
    ELSE LET g1 == GCD(Abs(a[1]), b[2])
             g2 == GCD(Abs(b[1]), a[2])
         IN  RNorm((a[1] \div g1) * (b[1] \div g2), (a[2] \div g2) * (b[2] \div g1))

\* a / b; a division by zero gives a non-finite float
RDiv(a, b) ==
    IF IsNaN(a) \/ IsNaN(b) \/ b[1] = 0 THEN NaN
    ELSE RMul(a, RNorm(b[2], b[1]))

RLt(a, b) == ~IsNaN(a) /\ ~IsNaN(b) /\ a[1] * b[2] < b[1] * a[2]

RLe(a, b) == ~IsNaN(a) /\ ~IsNaN(b) /\ a[1] * b[2] <= b[1] * a[2]

RECURSIVE RSumTo(_, _)
RSumTo(s, j) == IF j = 0 THEN Zero ELSE RAdd(RSumTo(s, j - 1), s[j])

RSum(s) == RSumTo(s, Len(s))

\* np.mean: nan for an empty list
RMean(s) == IF s = <<>> THEN NaN ELSE RDiv(RSum(s), R(Len(s), 1))

\* the least k with k*k >= m
RECURSIVE CeilSqrt(_, _)
CeilSqrt(m, k) == IF k * k >= m THEN k ELSE CeilSqrt(m, k + 1)

\* np.std (population standard deviation), rounded up to 1/100
RStd(s) ==
    IF s = <<>> THEN NaN
    ELSE LET mu  == RMean(s)
             dev == [j \in 1..Len(s) |-> RMul(RSub(s[j], mu), RSub(s[j], mu))]
             var == RMean(dev)
             m   == (var[1] * 10000 + var[2] - 1) \div var[2]
         IN  R(CeilSqrt(m, 0), 100)

\* np.clip(x, 0, 1) on one element
Clip(x) == IF RLt(x, Zero) THEN Zero ELSE IF RLt(One, x) THEN One ELSE x

ClipAll(s) == [j \in 1..Len(s) |-> Clip(s[j])]

\* Python's s[-k:] for 0 < k
LastN(s, k) == SubSeq(s, Max(1, Len(s) - k + 1), Len(s))

\* Python's s[-2*k:-k] for 0 < k
PrevN(s, k) == SubSeq(s, Max(1, Len(s) - 2 * k + 1), Len(s) - k)

(***************************************************************************)
(* The requests                                                            *)
(***************************************************************************)
Reqs == {1, 2}

Other(r) == IF r = 1 THEN 2 ELSE 1

Days == 0..6

Unset == <<>>

Pending == [pending |-> TRUE]

(***************************************************************************)
(* The random source: np.random.normal(0, scale) is scale * z, z the next  *)
(* standard normal sample of the stream.                                   *)
(***************************************************************************)
GaussTable == <<R(0, 1), R(1, 1), R(-2, 1), R(3, 1)>>

StreamLen == Len(GaussTable)

\* variant: the samples come from a second generator, which seeding np.random
\* does not put back: its position is the number of samples drawn so far
GaussUnseeded(pos) == GaussTable[((pos - rng + Len(drawn[1]) + Len(drawn[2])) % StreamLen) + 1]

Gauss(pos) == GaussTable[(pos % StreamLen) + 1]

Normal(scale, pos) == RMul(scale, Gauss(pos))

Advance(pos, k) == (pos + k) % StreamLen

\* np.random.normal(0, scale, size=k) drawn from position pos
NormalVector(scale, pos, k) == [j \in 1..k |-> Normal(scale, pos + j - 1)]

(***************************************************************************)
(* Strategy selection                                                      *)
(***************************************************************************)
\* variant: the check never fires
NoDataNever(h) == Len(h) < 0

\* if len(attendance_data) < 1: raise ValueError
NoData(h) == Len(h) < 1

\* variant: the 14-day switch off by one
TooLittleDataOff(h) == Len(h) <= 14

\* if len(recent_data) < 14
TooLittleData(h) == Len(h) < 14

\* one element of the simple-average list: avg + np.random.normal(0, std * 0.1)
SimpleSample(h, pos) == RAdd(RMean(h), Normal(RMul(RStd(h), R(1, 10)), pos))

(***************************************************************************)
(* Weekly pattern                                                          *)
(***************************************************************************)
\* weekly_pattern = np.zeros(7); weekly_counts = np.zeros(7)
WeeklyZeros == [sum |-> [d \in Days |-> Zero], cnt |-> [d \in Days |-> 0]]

\* for i, val in enumerate(recent_data): ...   (j = i + 1)
RECURSIVE WeeklyLoop(_, _, _)
WeeklyLoop(h, j, acc) ==
    IF j > Len(h) THEN acc
    ELSE LET day_idx == (j - 1) % 7
         IN  WeeklyLoop(h, j + 1,
                 [sum |-> [acc.sum EXCEPT ![day_idx] = RAdd(@, h[j])],
                  cnt |-> [acc.cnt EXCEPT ![day_idx] = @ + 1]])

\* weekly_pattern = weekly_pattern / np.maximum(weekly_counts, 1)
WeeklyPattern(h, start) ==
    LET acc == WeeklyLoop(h, 1, start)
    IN  [d \in Days |-> RDiv(acc.sum[d], R(Max(acc.cnt[d], 1), 1))]

\* weekly_mean = np.mean(weekly_pattern)
WeeklyMean(pattern) == RMean([j \in 1..7 |-> pattern[j - 1]])

\* variant: the zero guard applied weekday by weekday
WeeklyFactorsPerDay(pattern) ==
    LET weekly_mean == WeeklyMean(pattern)
    IN  [d \in Days |-> IF RLt(Zero, pattern[d]) THEN RDiv(pattern[d], weekly_mean) ELSE One]

\* weekly_factors = weekly_pattern / weekly_mean if weekly_mean > 0 else np.ones(7)
WeeklyFactors(pattern) ==
    LET weekly_mean == WeeklyMean(pattern)
    IN  IF RLt(Zero, weekly_mean)
        THEN [d \in Days |-> RDiv(pattern[d], weekly_mean)]
        ELSE [d \in Days |-> One]

(***************************************************************************)
(* Trend                                                                   *)
(***************************************************************************)
RecentTrend(h) ==
    LET window == Min(14, Len(h))
    IN  IF Len(h) >= 2 * window
        THEN RSub(RMean(LastN(h, window)), RMean(PrevN(h, window)))
        ELSE Zero

(***************************************************************************)
(* The seasonal model and its fallback                                     *)
(***************************************************************************)
FitTable == <<R(1, 2), R(4, 1), R(-3, 1)>>

\* model_fit.forecast(steps=p) when nothing raises: p finite numbers
SarimaxForecast(k, p) == [j \in 1..p |-> FitTable[((k + j - 1) % Len(FitTable)) + 1]]

\* variant: only the fit is inside the try
CaughtFitOnly(outcome) == outcome = "fit_raises"

\* except Exception: whatever the fit or the forecast raises is caught
Caught(outcome) == outcome \in {"fit_raises", "forecast_raises"}

\* variant: the list is not emptied between calls
FallbackStale(r) == forecast_values[Other(r)]

\* forecast_values = []
FallbackEmpty(r) == <<>>

\* variant: the weekday counted from the start of the forecast
DayIdxNoOffset(n, i) == i % 7

\* day_idx = (len(recent_data) + i) % 7
DayIdx(n, i) == (n + i) % 7

\* the value appended for offset i
FallbackValue(h, factors, trend, i) ==
    LET base_value         == RMean(LastN(h, 7))
        seasonal_component == RMul(base_value, factors[DayIdx(Len(h), i)])
        trend_component    == RMul(RMul(trend, R(i, 7)), R(1, 2))
    IN  RAdd(seasonal_component, trend_component)

\* for i in range(periods): ... forecast_values.append(value)
RECURSIVE FallbackLoop(_, _, _, _, _, _)
FallbackLoop(h, p, factors, trend, i, acc) ==
    IF i >= p THEN acc
    ELSE FallbackLoop(h, p, factors, trend, i + 1,
                      Append(acc, FallbackValue(h, factors, trend, i)))

(***************************************************************************)
(* Post-processing                                                         *)
(***************************************************************************)
\* forecast_values[i] = forecast_values[i] * (0.7 + 0.3 * weekly_factors[day_idx])
Reseasonalized(fv, n, factors) ==
    [j \in 1..Len(fv) |->
        RMul(fv[j], RAdd(R(7, 10), RMul(R(3, 10), factors[DayIdx(n, j - 1)])))]

\* noise = np.random.normal(0, std * 0.08, size=len(forecast_values))
Noise(h, pos, k) == NormalVector(RMul(RStd(h), R(2, 25)), pos, k)

AddSeq(a, b) == [j \in 1..Len(a) |-> RAdd(a[j], b[j])]

Kernel == <<R(1, 4), R(1, 2), R(1, 4)>>

\* np.convolve(a, v, mode='full')[k-1]: sum of a[j] * v[k - j + 1]
ConvolveFull(a, v) ==
    [k \in 1..(Len(a) + Len(v) - 1) |->
        RSum([j \in 1..Len(a) |->
                 IF k - j + 1 \in 1..Len(v) THEN RMul(a[j], v[k - j + 1]) ELSE Zero])]

\* variant: the leading elements of 'full' instead of the central ones
ConvolveSameShifted(a, v) ==
    LET full == ConvolveFull(a, v)
    IN  [k \in 1..Max(Len(a), Len(v)) |-> full[k]]

\* np.convolve(a, v, mode='same'): the max(M, N) central elements of 'full'
ConvolveSame(a, v) ==
    LET full  == ConvolveFull(a, v)
        size  == Max(Len(a), Len(v))
        first == (Min(Len(a), Len(v)) - 1) \div 2
    IN  [k \in 1..size |-> full[first + k]]

\* variant: smoothing from two values on
SmoothGuardOff(fv) == Len(fv) >= 2

\* variant: smoothing only above three values
SmoothGuardSkip(fv) == Len(fv) > 3

\* if len(forecast_values) >= 3
SmoothGuard(fv) == Len(fv) >= 3

(***************************************************************************)
(* The inputs a request may carry                                          *)
(***************************************************************************)
MaxLen == 29

MaxPeriods == 3

\* weeks of attendance rates, in tenths
Weeks ==
    { <<0, 0, 0, 0, 0, 0, 0>>,
      <<10, 10, 10, 10, 10, 10, 10>>,
      <<5, 6, 5, 6, 5, 6, 5>>,
      <<0, 10, 10, 10, 10, 10, 5>> }

\* how the last seven days depart from the weekly cycle: not at all, or all
\* at one rate (in tenths)
Tails == {-1, 0, 10}

\* the lengths tried: empty and short histories, the lengths around the
\* 14-day switch, and the lengths from 28 on, where the trend is defined
Lens == {n \in 0..MaxLen : n <= 2 \/ n \in 13..15 \/ n >= 28}

History(n, week, tail) ==
    [j \in 1..n |->
        IF tail >= 0 /\ j > n - 7 THEN R(tail, 10) ELSE R(week[((j - 1) % 7) + 1], 10)]

\* every length with the plain cycle; the departing tail up to 28 days, the
\* shortest history with a trend
Histories ==
    {History(n, w, -1) : n \in Lens, w \in Weeks}
    \cup {History(n, w, t) : n \in {m \in Lens : m <= 28}, w \in Weeks, t \in Tails}

Horizons == 1..MaxPeriods

Outcomes ==
    {[outcome |-> "fit_raises", k |-> 0], [outcome |-> "forecast_raises", k |-> 0]}
    \cup {[outcome |-> "ok", k |-> k] : k \in 0..(Len(FitTable) - 1)}

Seeds == 0..(StreamLen - 1)

\* every value of a history is a rate in [0, 1]
IsRate(x) == RLe(Zero, x) /\ RLe(x, One)

(***************************************************************************)
(* The handler, one action per step of forecast_attendance                 *)
(***************************************************************************)
Logged(r, stage, fv) == [log EXCEPT ![r] = Append(@, [stage |-> stage, values |-> fv])]

Failure(msg) == [success |-> FALSE, error |-> msg]

Success(fv, method) == [success |-> TRUE, forecast |-> fv, method |-> method]

\* lines 59-64 and the handler of line 148
Validate(r) ==
    /\ pc[r] = "start"
    /\ IF NoData(attendance_data[r])
       THEN /\ response' = [response EXCEPT ![r] = Failure("No attendance data provided")]
            /\ pc' = [pc EXCEPT ![r] = "done"]
            /\ log' = Logged(r, "InvalidInput", forecast_values[r])
       ELSE /\ pc' = [pc EXCEPT ![r] = "select"]
            /\ UNCHANGED <<response, log>>
    /\ UNCHANGED <<attendance_data, periods, sarimax, weekly_pattern, weekly_factors,
                   recent_trend, forecast_values, rng, seed, drawn>>

\* line 69
Select(r) ==
    /\ pc[r] = "select"
    /\ pc' = [pc EXCEPT ![r] = IF TooLittleData(attendance_data[r]) THEN "simple" ELSE "weekly"]
    /\ forecast_values' = [forecast_values EXCEPT ![r] = <<>>]
    /\ UNCHANGED <<attendance_data, periods, sarimax, weekly_pattern, weekly_factors,
                   recent_trend, response, rng, seed, drawn, log>>

\* line 73, one turn of the list comprehension: one call of np.random.normal
DrawSample(r) ==
    /\ pc[r] = "simple"
    /\ Len(forecast_values[r]) < periods[r]
    /\ forecast_values' = [forecast_values EXCEPT
                              ![r] = Append(@, SimpleSample(attendance_data[r], rng))]
    /\ rng' = Advance(rng, 1)
    /\ drawn' = [drawn EXCEPT ![r] = Append(@, rng)]
    /\ UNCHANGED <<attendance_data, periods, sarimax, pc, weekly_pattern, weekly_factors,
                   recent_trend, response, seed, log>>

\* lines 74-75
ReturnSimple(r) ==
    /\ pc[r] = "simple"
    /\ Len(forecast_values[r]) >= periods[r]
    /\ forecast_values' = [forecast_values EXCEPT ![r] = ClipAll(@)]
    /\ response' = [response EXCEPT ![r] = Success(ClipAll(forecast_values[r]), "simple_average")]
    /\ pc' = [pc EXCEPT ![r] = "done"]
    /\ log' = Logged(r, "SimpleAverage", ClipAll(forecast_values[r]))
    /\ UNCHANGED <<attendance_data, periods, sarimax, weekly_pattern, weekly_factors,
                   recent_trend, rng, seed, drawn>>

\* lines 78-88
CalcWeekly(r) ==
    /\ pc[r] = "weekly"
    /\ LET pattern == WeeklyPattern(attendance_data[r], WeeklyZeros)
       IN  /\ weekly_pattern' = [weekly_pattern EXCEPT ![r] = pattern]
           /\ weekly_factors' = [weekly_factors EXCEPT ![r] = WeeklyFactors(pattern)]
    /\ pc' = [pc EXCEPT ![r] = "trend"]
    /\ log' = Logged(r, "WeeklyPatternComputed", forecast_values[r])
    /\ UNCHANGED <<attendance_data, periods, sarimax, recent_trend, forecast_values,
                   response, rng, seed, drawn>>

\* lines 91-92
CalcTrend(r) ==
    /\ pc[r] = "trend"
    /\ recent_trend' = [recent_trend EXCEPT ![r] = RecentTrend(attendance_data[r])]
    /\ pc' = [pc EXCEPT ![r] = "fit"]
    /\ log' = Logged(r, "TrendComputed", forecast_values[r])
    /\ UNCHANGED <<attendance_data, periods, sarimax, weekly_pattern, weekly_factors,
                   forecast_values, response, rng, seed, drawn>>

\* lines 94-112: the fit and the forecast, and where an exception of theirs goes
FitAttempt(r) ==
    /\ pc[r] = "fit"
    /\ LET o  == sarimax[r]
           at == Append(log[r], [stage |-> "FitAttempted", values |-> forecast_values[r]])
       IN  IF o.outcome = "ok"
           THEN LET fv == SarimaxForecast(o.k, periods[r])
                IN  /\ forecast_values' = [forecast_values EXCEPT ![r] = fv]
                    /\ pc' = [pc EXCEPT ![r] = "reseason"]
                    /\ log' = [log EXCEPT ![r] =
                                  Append(at, [stage |-> "FitSucceeded", values |-> fv])]
                    /\ UNCHANGED response
           ELSE IF Caught(o.outcome)
           THEN /\ pc' = [pc EXCEPT ![r] = "fallback"]
                /\ log' = [log EXCEPT ![r] =
                              Append(at, [stage |-> "FitFailed", values |-> forecast_values[r]])]
                /\ UNCHANGED <<forecast_values, response>>
           ELSE /\ response' = [response EXCEPT ![r] = Failure(o.outcome)]
                /\ pc' = [pc EXCEPT ![r] = "done"]
                /\ log' = [log EXCEPT ![r] =
                              Append(at, [stage |-> "Error", values |-> forecast_values[r]])]
                /\ UNCHANGED forecast_values
    /\ UNCHANGED <<attendance_data, periods, sarimax, weekly_pattern, weekly_factors,
                   recent_trend, rng, seed, drawn>>

\* lines 114-124
Fallback(r) ==
    /\ pc[r] = "fallback"
    /\ LET fv == FallbackLoop(attendance_data[r], periods[r], weekly_factors[r],
                              recent_trend[r], 0, FallbackEmpty(r))
       IN  /\ forecast_values' = [forecast_values EXCEPT ![r] = fv]
           /\ log' = Logged(r, "FallbackComputed", fv)
    /\ pc' = [pc EXCEPT ![r] = "reseason"]
    /\ UNCHANGED <<attendance_data, periods, sarimax, weekly_pattern, weekly_factors,
                   recent_trend, response, rng, seed, drawn>>

\* lines 127-129
Reseasonalize(r) ==
    /\ pc[r] = "reseason"
    /\ LET fv == Reseasonalized(forecast_values[r], Len(attendance_data[r]), weekly_factors[r])
       IN  /\ forecast_values' = [forecast_values EXCEPT ![r] = fv]
           /\ log' = Logged(r, "Reseasonalized", fv)
    /\ pc' = [pc EXCEPT ![r] = "noise"]
    /\ UNCHANGED <<attendance_data, periods, sarimax, weekly_pattern, weekly_factors,
                   recent_trend, response, rng, seed, drawn>>

\* lines 132-134: one call of np.random.normal for the whole vector
AddNoise(r) ==
    /\ pc[r] = "noise"
    /\ LET k  == Len(forecast_values[r])
           fv == AddSeq(forecast_values[r], Noise(attendance_data[r], rng, k))
       IN  /\ forecast_values' = [forecast_values EXCEPT ![r] = fv]
           /\ log' = Logged(r, "NoiseAdded", fv)
           /\ rng' = Advance(rng, k)
           /\ drawn' = [drawn EXCEPT ![r] = @ \o [j \in 1..k |-> Advance(rng, j - 1)]]
    /\ pc' = [pc EXCEPT ![r] = "smooth"]
    /\ UNCHANGED <<attendance_data, periods, sarimax, weekly_pattern, weekly_factors,
                   recent_trend, response, seed>>

\* lines 137-138
Smooth(r) ==
    /\ pc[r] = "smooth"
    /\ IF SmoothGuard(forecast_values[r])
       THEN LET fv == ConvolveSame(forecast_values[r], Kernel)
            IN  /\ forecast_values' = [forecast_values EXCEPT ![r] = fv]
                /\ log' = Logged(r, "Smoothed", fv)
       ELSE UNCHANGED <<forecast_values, log>>
    /\ pc' = [pc EXCEPT ![r] = "clamp"]
    /\ UNCHANGED <<attendance_data, periods, sarimax, weekly_pattern, weekly_factors,
                   recent_trend, response, rng, seed, drawn>>

\* lines 141-147
Clamp(r) ==
    /\ pc[r] = "clamp"
    /\ LET fv == ClipAll(forecast_values[r])
       IN  /\ forecast_values' = [forecast_values EXCEPT ![r] = fv]
           /\ log' = Logged(r, "Clamped", fv)
           /\ response' = [response EXCEPT ![r] = Success(fv, "sarima_enhanced")]
    /\ pc' = [pc EXCEPT ![r] = "done"]
    /\ UNCHANGED <<attendance_data, periods, sarimax, weekly_pattern, weekly_factors,
                   recent_trend, rng, seed, drawn>>

Step(r) ==
    \/ Validate(r)
    \/ Select(r)
    \/ DrawSample(r)
    \/ ReturnSimple(r)
    \/ CalcWeekly(r)
    \/ CalcTrend(r)
    \/ FitAttempt(r)
    \/ Fallback(r)
    \/ Reseasonalize(r)
    \/ AddNoise(r)
    \/ Smooth(r)
    \/ Clamp(r)

Next == \E r \in Reqs : Step(r)

(***************************************************************************)
(* Spec: one request, any input.                                           *)
(***************************************************************************)
Locals ==
    /\ weekly_pattern = [r \in Reqs |-> Unset]
    /\ weekly_factors = [r \in Reqs |-> Unset]
    /\ recent_trend = [r \in Reqs |-> Zero]
    /\ forecast_values = [r \in Reqs |-> <<>>]
    /\ response = [r \in Reqs |-> Pending]
    /\ drawn = [r \in Reqs |-> <<>>]
    /\ log = [r \in Reqs |-> <<>>]

Init ==
    /\ \E h \in Histories : attendance_data = [r \in Reqs |-> IF r = 1 THEN h ELSE <<>>]
    /\ \E p \in Horizons : periods = [r \in Reqs |-> p]
    /\ \E o \in Outcomes : sarimax = [r \in Reqs |-> o]
    /\ pc = [r \in Reqs |-> IF r = 1 THEN "start" ELSE "off"]
    /\ seed \in Seeds
    /\ rng = seed
    /\ Locals

Spec == Init /\ [][Next]_vars

(***************************************************************************)
(* SpecConc: two requests served at once by two threads, on small inputs.  *)
(***************************************************************************)
ConcHistories ==
    {History(2, <<5, 6, 5, 6, 5, 6, 5>>, -1), History(14, <<0, 10, 10, 10, 10, 10, 5>>, -1)}

ConcHorizons == 1..2

ConcOutcomes == {[outcome |-> "fit_raises", k |-> 0], [outcome |-> "ok", k |-> 0]}

InitConc ==
    /\ attendance_data \in [Reqs -> ConcHistories]
    /\ periods \in [Reqs -> ConcHorizons]
    /\ sarimax \in [Reqs -> ConcOutcomes]
    /\ pc = [r \in Reqs |-> "start"]
    /\ seed \in Seeds
    /\ rng = seed
    /\ Locals

SpecConc == InitConc /\ [][Next]_vars

(***************************************************************************)
(* SpecDet: the same request made twice, one call after the other, with    *)
(* np.random seeded to the same state before each call and the library     *)
(* behaving the same way in both.                                          *)
(***************************************************************************)
DetHistories == {History(n, w, t) : n \in {2, 14, 15}, w \in Weeks, t \in Tails}

InitDet ==
    /\ \E h \in DetHistories : attendance_data = [r \in Reqs |-> h]
    /\ \E p \in Horizons : periods = [r \in Reqs |-> p]
    /\ \E o \in Outcomes : sarimax = [r \in Reqs |-> o]
    /\ pc = [r \in Reqs |-> IF r = 1 THEN "start" ELSE "wait"]
    /\ seed \in Seeds
    /\ rng = seed
    /\ Locals

\* np.random.seed(seed) between the two calls
Reseed ==
    /\ pc[1] = "done"
    /\ pc[2] = "wait"
    /\ rng' = seed
    /\ pc' = [pc EXCEPT ![2] = "start"]
    /\ UNCHANGED <<attendance_data, periods, sarimax, weekly_pattern, weekly_factors,
                   recent_trend, forecast_values, response, seed, drawn, log>>

NextDet == Next \/ Reseed

SpecDet == InitDet /\ [][NextDet]_vars

(***************************************************************************)
(* What the claims speak of                                                *)
(***************************************************************************)
Served(r) == pc[r] \notin {"off", "wait"}

Done(r) == pc[r] = "done"

Stages(r) == [j \in 1..Len(log[r]) |-> log[r][j].stage]

HasStage(r, stage) == \E j \in 1..Len(log[r]) : log[r][j].stage = stage

\* forecast_values as the stage left it
After(r, stage) == log[r][CHOOSE j \in 1..Len(log[r]) : log[r][j].stage = stage].values

IsPrefix(a, b) == Len(a) <= Len(b) /\ \A j \in 1..Len(a) : a[j] = b[j]

Seasonal(r) == Len(attendance_data[r]) >= 14

FitRaises(r) == sarimax[r].outcome \in {"fit_raises", "forecast_raises"}

\* C1: a successful response carries exactly `periods` values, each in [0, 1],
\* on the simple-average path and on the seasonal path, fit or fallback,
\* smoothed or not.
C1_LengthAndRange ==
    \A r \in Reqs :
        (Done(r) /\ response[r].success) =>
            /\ Len(response[r].forecast) = periods[r]
            /\ \A j \in 1..Len(response[r].forecast) : IsRate(response[r].forecast[j])

\* a seasonal request whose fit succeeded, that was smoothed, and whose values
\* had to be clamped from both sides
C1_Witness ==
    /\ Done(1) /\ response[1].success
    /\ HasStage(1, "FitSucceeded") /\ HasStage(1, "Smoothed")
    /\ \E j \in 1..periods[1] : RLt(After(1, "Smoothed")[j], Zero)
    /\ \E j \in 1..periods[1] : RLt(One, After(1, "Smoothed")[j])

\* C2: the method of a successful response is simple_average for a history of
\* 1..13 values and sarima_enhanced for one of 14 or more, whatever the fit did.
C2_MethodByLength ==
    \A r \in Reqs :
        (Done(r) /\ response[r].success) =>
            /\ Len(attendance_data[r]) \in 1..13 => response[r].method = "simple_average"
            /\ Len(attendance_data[r]) >= 14 => response[r].method = "sarima_enhanced"

\* a history of exactly 14 values answered through the fallback
C2_Witness ==
    /\ Done(1) /\ response[1].success
    /\ Len(attendance_data[1]) = 14
    /\ HasStage(1, "FallbackComputed")
    /\ response[1].method = "sarima_enhanced"

\* C3: an empty history ends in the failure response and nothing else runs:
\* no strategy step, no draw from the random source, no forecast.
C3_EmptyFails ==
    \A r \in Reqs :
        (Served(r) /\ Len(attendance_data[r]) = 0) =>
            /\ pc[r] \in {"start", "done"}
            /\ forecast_values[r] = <<>>
            /\ weekly_pattern[r] = Unset
            /\ drawn[r] = <<>>
            /\ rng = seed
            /\ Done(r) =>
                /\ response[r] = Failure("No attendance data provided")
                /\ Stages(r) = <<"InvalidInput">>

C3_Witness ==
    /\ Done(1)
    /\ Len(attendance_data[1]) = 0
    /\ response[1].success = FALSE

\* C4: a non-empty history always ends in the success response; when the fit
\* or the forecast extraction raises, the fallback runs and the error is not
\* surfaced.
C4_NeverFails ==
    \A r \in Reqs :
        (Done(r) /\ Len(attendance_data[r]) >= 1) =>
            /\ response[r].success
            /\ Len(response[r].forecast) >= 1
            /\ (Seasonal(r) /\ FitRaises(r)) =>
                  /\ HasStage(r, "FitFailed")
                  /\ HasStage(r, "FallbackComputed")
                  /\ ~HasStage(r, "Error")

\* the forecast extraction raised and the response is a success
C4_Witness ==
    /\ Done(1) /\ response[1].success
    /\ sarimax[1].outcome = "forecast_raises"
    /\ HasStage(1, "FallbackComputed")

\* the history's values that fall on weekday d, and their mean, read off the
\* history directly
DayValues(h, d) ==
    [k \in 1..((Len(h) + 6 - d) \div 7) |-> h[d + 1 + 7 * (k - 1)]]

DayMean(h, d) == RMean(DayValues(h, d))

MeanOfDayMeans(h) == RMean([j \in 1..7 |-> DayMean(h, j - 1)])

\* C7 as claimed: the factor of a weekday whose mean is zero is 1.0, also when
\* other weekdays have a non-zero mean; any other weekday's factor is its mean
\* divided by the mean of the seven weekday means.
C7_ZeroDayFactorIsOne ==
    \A r \in Reqs :
        HasStage(r, "WeeklyPatternComputed") =>
            LET h  == attendance_data[r]
                wm == MeanOfDayMeans(h)
            IN  \A d \in Days :
                    LET dm == DayMean(h, d)
                    IN  IF dm = Zero
                        THEN weekly_factors[r][d] = One
                        ELSE weekly_factors[r][d] = RDiv(dm, wm)

\* C7 amended: when the mean of the seven weekday means is zero every factor
\* is 1.0; otherwise every weekday's factor is its mean divided by the mean of
\* the seven weekday means, which is 0 for a weekday whose mean is zero.
C7_FactorsGuardOnWeeklyMean ==
    \A r \in Reqs :
        HasStage(r, "WeeklyPatternComputed") =>
            LET h  == attendance_data[r]
                wm == MeanOfDayMeans(h)
            IN  \A d \in Days :
                    LET dm == DayMean(h, d)
                    IN  /\ weekly_pattern[r][d] = dm
                        /\ IF RLt(Zero, wm)
                           THEN /\ weekly_factors[r][d] = RDiv(dm, wm)
                                /\ dm = Zero => weekly_factors[r][d] = Zero
                           ELSE weekly_factors[r][d] = One

\* a weekday with zero mean beside weekdays with a non-zero mean
C7_Witness ==
    /\ HasStage(1, "WeeklyPatternComputed")
    /\ \E d, e \in Days :
          /\ DayMean(attendance_data[1], d) = Zero
          /\ DayMean(attendance_data[1], e) # Zero
          /\ weekly_factors[1][d] = Zero

\* the stages a seasonal request goes through, from its inputs
ExpectedStages(r) ==
    <<"WeeklyPatternComputed", "TrendComputed", "FitAttempted">>
    \o (IF FitRaises(r) THEN <<"FitFailed", "FallbackComputed">> ELSE <<"FitSucceeded">>)
    \o <<"Reseasonalized", "NoiseAdded">>
    \o (IF periods[r] >= 3 THEN <<"Smoothed">> ELSE <<>>)
    \o <<"Clamped">>

\* C8: a seasonal request runs its stages in the one order: weekly pattern,
\* trend, one fit attempt, then fit succeeded or (only after a failure) the
\* fallback, reseasonalized, noise added, smoothed iff horizon >= 3, clamped;
\* and a sarima_enhanced response is produced only after all of them.
C8_StageOrder ==
    \A r \in Reqs :
        /\ (Served(r) /\ Seasonal(r)) =>
              /\ IsPrefix(Stages(r), ExpectedStages(r))
              /\ Done(r) => Stages(r) = ExpectedStages(r)
        /\ (Done(r) /\ response[r].success /\ response[r].method = "sarima_enhanced") =>
              Stages(r) = ExpectedStages(r)

\* a run through the fallback that was smoothed
C8_Witness ==
    /\ Done(1)
    /\ HasStage(1, "FallbackComputed")
    /\ HasStage(1, "Smoothed")
    /\ response[1].method = "sarima_enhanced"

Periodic(h) == \A j \in 1..Len(h) : h[j] = h[((j - 1) % 7) + 1]

\* C9: for a history of period 7 (14 or more values, positive mean) whose fit
\* failed, the raw fallback value at offset i is
\* mean(last 7) * factor[(n+i) mod 7] + trend * (i/7) * 0.5, the trend is zero,
\* and the value is the historical value of weekday (n+i) mod 7.
C9_FallbackOnPeriodic ==
    \A r \in Reqs :
        LET h == attendance_data[r]
            n == Len(h)
        IN  (HasStage(r, "FallbackComputed") /\ Periodic(h) /\ n >= 14 /\ RLt(Zero, RMean(h))) =>
                LET raw == After(r, "FallbackComputed")
                IN  /\ Len(raw) = periods[r]
                    /\ recent_trend[r] = Zero
                    /\ \A i \in 0..(periods[r] - 1) :
                          /\ raw[i + 1] =
                                RAdd(RMul(RMean(LastN(h, 7)), weekly_factors[r][(n + i) % 7]),
                                     RMul(RMul(recent_trend[r], R(i, 7)), R(1, 2)))
                          /\ raw[i + 1] = DayMean(h, (n + i) % 7)
                          /\ raw[i + 1] = h[((n + i) % 7) + 1]

\* a periodic history long enough for the trend to be computed, not a whole
\* number of weeks, with weekdays that differ
C9_Witness ==
    /\ HasStage(1, "FallbackComputed")
    /\ Periodic(attendance_data[1])
    /\ Len(attendance_data[1]) >= 28
    /\ Len(attendance_data[1]) % 7 # 0
    /\ attendance_data[1][1] # attendance_data[1][2]
    /\ periods[1] >= 2

Tap(x, j) == IF j \in 1..Len(x) THEN x[j] ELSE Zero

\* C10: smoothing runs iff horizon >= 3 and keeps the length; output i is
\* 0.25*x[i-1] + 0.5*x[i] + 0.25*x[i+1] over the noised series x, a neighbour
\* outside the series counting as zero; for horizon 1 or 2 the noised series
\* is clamped as it is.
C10_Smoothing ==
    \A r \in Reqs :
        (pc[r] \in {"clamp", "done"} /\ HasStage(r, "NoiseAdded")) =>
            LET x == After(r, "NoiseAdded")
            IN  /\ Len(x) = periods[r]
                /\ IF periods[r] >= 3
                   THEN /\ HasStage(r, "Smoothed")
                        /\ LET y == After(r, "Smoothed")
                           IN  /\ Len(y) = Len(x)
                               /\ \A i \in 1..Len(x) :
                                     y[i] = RAdd(RAdd(RMul(R(1, 4), Tap(x, i - 1)),
                                                      RMul(R(1, 2), x[i])),
                                                 RMul(R(1, 4), Tap(x, i + 1)))
                   ELSE /\ ~HasStage(r, "Smoothed")
                        /\ forecast_values[r] = IF Done(r) THEN ClipAll(x) ELSE x

\* a smoothed series whose noise was not zero
C10_Witness ==
    /\ Done(1)
    /\ HasStage(1, "Smoothed")
    /\ periods[1] >= 3
    /\ After(1, "NoiseAdded") # After(1, "Reseasonalized")
    /\ After(1, "Smoothed")[1] # After(1, "NoiseAdded")[1]

\* the forecast of request r computed from its own inputs and the stream
\* positions given
ForecastWith(r, positions) ==
    LET h == attendance_data[r]
        p == periods[r]
    IN  IF TooLittleData(h)
        THEN ClipAll([j \in 1..p |-> SimpleSample(h, positions[j])])
        ELSE LET factors == WeeklyFactors(WeeklyPattern(h, WeeklyZeros))
                 raw     == IF sarimax[r].outcome = "ok"
                            THEN SarimaxForecast(sarimax[r].k, p)
                            ELSE FallbackLoop(h, p, factors, RecentTrend(h), 0, FallbackEmpty(r))
                 x       == AddSeq(Reseasonalized(raw, Len(h), factors),
                                   [j \in 1..p |-> Normal(RMul(RStd(h), R(2, 25)), positions[j])])
             IN  ClipAll(IF SmoothGuard(x) THEN ConvolveSame(x, Kernel) ELSE x)

\* the positions a request running alone draws from the seeded stream
AlonePositions(p) == [j \in 1..p |-> Advance(seed, j - 1)]

MethodFor(r) == IF Len(attendance_data[r]) < 14 THEN "simple_average" ELSE "sarima_enhanced"

\* C5 as claimed: under any interleaving a request's values and method are
\* those of the same request run alone.
C5_SameAsAlone ==
    \A r \in Reqs :
        Done(r) =>
            /\ response[r].method = MethodFor(r)
            /\ response[r].forecast = ForecastWith(r, AlonePositions(periods[r]))

\* C5 amended: the requests share one piece of mutable state, the random
\* source.  Under any interleaving a request's success, method and length are
\* those of a run alone, and its values are those computed from its own
\* inputs with the samples it drew, which need not be the samples of a run
\* alone.
C5_SameUpToSamples ==
    \A r \in Reqs :
        Done(r) =>
            /\ response[r].success
            /\ response[r].method = MethodFor(r)
            /\ Len(response[r].forecast) = periods[r]
            /\ Len(drawn[r]) = periods[r]
            /\ response[r].forecast = ForecastWith(r, drawn[r])

\* a request that drew other samples than it would alone, and answered
\* other values
C5_Witness ==
    /\ Done(1) /\ Done(2)
    /\ drawn[1] # AlonePositions(periods[1])
    /\ response[1].forecast # ForecastWith(1, AlonePositions(periods[1]))

\* C6: two calls with the same history and horizon, the random source seeded
\* to the same state and the fit behaving the same, give the same values and
\* the same method.
C6_Deterministic ==
    (Done(1) /\ Done(2)) => response[1] = response[2]

\* two seasonal calls through the fallback whose noise was not zero
C6_Witness ==
    /\ Done(1) /\ Done(2)
    /\ HasStage(2, "FallbackComputed")
    /\ After(2, "NoiseAdded") # After(2, "Reseasonalized")
    /\ response[2].method = "sarima_enhanced"

====
